---- MODULE Spec2Model ----
(***************************************************************************)
(* The ReAct loop of react-agent/01-github-pr-reviewer/agent_runner.py:    *)
(* AgentRunnerService.run_agent, its two oracle clients and the pydantic   *)
(* models that validate the oracles' answers.                              *)
(*                                                                         *)
(* The oracles (opper.call), the registered tools and the tracing sink are *)
(* the environment: every answer, exception and recording failure they can *)
(* produce is an input of the action that receives it.                     *)
(*                                                                         *)
(* Encodings.  A Python dict is the set of its <<key, value>> pairs.  An   *)
(* Optional[T] is a set with at most one element: None is {}, a value x is *)
(* {x}.  A confidence is an integer number of tenths (1.0 is 10).  Strings *)
(* are strings: messages are built with \o and ToString, as the f-strings  *)
(* of the source build them.                                               *)
(***************************************************************************)
EXTENDS Integers, Sequences, FiniteSets, TLC

VARIABLES
    tools,      \* self.tools: the registered names, in the dict's key order
    max_steps,  \* self.max_steps
    registered, \* the mappings register_tools has been given, oldest first
    pc,         \* per run: where run_agent is suspended
    context,    \* per run: the context dict (RunState)
    request,    \* per run: the request of the outstanding oracle or tool call
    calls,      \* per run: the completed oracle and tool calls, oldest first
    recFail,    \* per run: the recording calls that have failed
    outcome,    \* per run: what run_agent returned or raised
    gh_tool     \* one call of GitHubPRTool.execute: its position, requests and result

vars == <<tools, max_steps, registered, pc, context, request, calls, recFail, outcome, gh_tool>>

-----------------------------------------------------------------------------
(* Bounds *)

MaxStepsBound == 3

MaxReplaySteps == 2

MaxConcSteps == 2

MaxRegistrySteps == 2

MaxLiveSteps == 2

\* the number of register_tools calls followed
MaxRegistrations == 2

\* runs 1 and 2 are calls of run_agent; runs 3 and 4 repeat them, one at a time
Runs == {1, 2, 3, 4}

-----------------------------------------------------------------------------
(* Python values *)

None == {}

Some(x) == {x}

TheValue(opt) == CHOOSE x \in opt : TRUE

\* faulty variant: `is not None` in place of the truth value
TruthyStrNotNone(opt) == opt # None

\* Python truthiness of an Optional[str]: None and "" are falsy
TruthyStr(opt) == opt # None /\ TheValue(opt) # ""

\* faulty variant: the value is dropped
OrEmptyDictLost(opt) == {}

\* faulty variant: a missing value is reported as an error
OrEmptyDictStrict(opt) ==
    IF opt = None THEN {<<"error", "missing output">>} ELSE TheValue(opt)

\* `d or {}` for an Optional[dict]: None and the empty dict both give {}
OrEmptyDict(opt) == IF opt = None THEN {} ELSE TheValue(opt)

Keys(m) == {p[1] : p \in m}

HasKey(m, k) == k \in Keys(m)

Get(m, k) == (CHOOSE p \in m : p[1] = k)[2]

Put(m, k, v) == {p \in m : p[1] # k} \cup {<<k, v>>}

\* `sub in s` on strings
Contains(s, sub) ==
    \E i \in 1..(Len(s) - Len(sub) + 1) : SubSeq(s, i, i + Len(sub) - 1) = sub

RECURSIVE JoinNames(_)
JoinNames(names) ==
    IF names = <<>> THEN ""
    ELSE IF Len(names) = 1 THEN "'" \o names[1] \o "'"
    ELSE "'" \o names[1] \o "', " \o JoinNames(Tail(names))

\* str(list(self.tools.keys()))
PyListStr(names) == "[" \o JoinNames(names) \o "]"

\* str(result)
PyStr(v) == ToString(v)

\* f"step_{current_step}"
StepKey(k) == "step_" \o ToString(k)

-----------------------------------------------------------------------------
(* The pydantic models *)

ConfidenceOne == 10

\* faulty variant: the bounds ge=0.0, le=1.0 are not enforced
AgentReasoningUnbounded(raw) == raw.content # None /\ raw.confidence # None

\* AgentReasoning: content is required, confidence is required and in [0.0, 1.0]
AgentReasoningValid(raw) ==
    /\ raw.content # None
    /\ raw.confidence # None
    /\ TheValue(raw.confidence) >= 0
    /\ TheValue(raw.confidence) <= ConfidenceOne

\* AgentAction: action_type is required; the other fields default to None
AgentActionValid(raw) == raw.action_type # None

-----------------------------------------------------------------------------
(* What the environment can answer *)

ReasoningResponse(content, confidence) ==
    [status |-> "ok", content |-> content, confidence |-> confidence, message |-> ""]

ReasoningResponses ==
    {ReasoningResponse(Some("analysis"), Some(c)) : c \in {-1, 0, ConfidenceOne, 15}}
    \cup {ReasoningResponse(None, Some(5)),
          [status |-> "exception", content |-> None, confidence |-> None,
           message |-> "reasoning oracle unavailable"]}

\* the values a tool parameter can have: plain data, a pydantic object, or a
\* container whose element is a pydantic object
PlainValue(s) == [kind |-> "plain", data |-> s]
ModelValue(s) == [kind |-> "model", data |-> s]
DictOfModel(s) == [kind |-> "dict_of_model", data |-> s]

HasModelDump(v) == v.kind = "model"

ModelDump(v) == PlainValue(v.data)

ActionResponse(type, name, params, output) ==
    [status |-> "ok", action_type |-> type, tool_name |-> name,
     tool_params |-> params, output |-> output, message |-> ""]

GoodOutput == {<<"review_summary", "ok">>, <<"overall_assessment", "good">>}

ErrorKeyOutput == {<<"review_summary", "ok">>, <<"error", "model said error">>}

RichParams == {<<"owner", PlainValue("octo")>>, <<"pr", ModelValue("input")>>,
               <<"extra", DictOfModel("input")>>}

DecisionResponses ==
    {ActionResponse(Some("finish"), None, None, out) :
        out \in {None, Some({}), Some(GoodOutput), Some(ErrorKeyOutput)}}
    \cup {ActionResponse(Some("use_tool"), Some("github_pr_tool"), Some(RichParams), None),
          ActionResponse(Some("use_tool"), Some("web_search"), None, None),
          ActionResponse(Some("use_tool"), Some(""), None, None),
          ActionResponse(Some("use_tool"), None, None, None),
          ActionResponse(Some("think"), Some("github_pr_tool"), None, None),
          ActionResponse(None, None, None, None),
          [status |-> "exception", action_type |-> None, tool_name |-> None,
           tool_params |-> None, output |-> None,
           message |-> "decision oracle unavailable"]}

ToolResponses ==
    {[status |-> "return", result |-> {<<"status", "success">>, <<"pr_title", "Fix">>},
      message |-> ""],
     [status |-> "return",
      result |-> {<<"status", "error">>, <<"error", "PR not found: octo/repo#1">>},
      message |-> ""],
     [status |-> "throw", result |-> {}, message |-> "connection reset"]}

\* input_data, as main builds it
Inputs == {{<<"owner", "octo">>, <<"repo", "repo">>, <<"pr_number", "1">>}}

\* the registries a service can hold: none registered, or the last mapping given
Registries == {<<>>, <<"github_pr_tool">>, <<"github_pr_tool", "web_search">>}

RecordingFailure == "trace sink unavailable"

ReasoningValidationError == "validation error for AgentReasoning"

ActionValidationError == "validation error for AgentAction"

-----------------------------------------------------------------------------
(* run_agent *)

NoRequest == [call |-> "none"]

\* execute has not been called
NotCalled == [pc |-> "idle"]

NoOutcome == [kind |-> "pending", value |-> {}, exc |-> "", exit |-> "none"]

\* `return value` at the statement named by exit
Returned(value, exit) == [kind |-> "returned", value |-> value, exc |-> "", exit |-> exit]

\* an exception leaving run_agent
Raised(message) == [kind |-> "raised", value |-> {}, exc |-> message, exit |-> "exception"]

ErrorResult(message) == {<<"error", message>>}

\* faulty variant: the context of the finished run is used again
NewContextReused(input_data) ==
    IF pc[1] = "done" THEN context[1]
    ELSE [input |-> input_data, thoughts |-> <<>>, current_step |-> 0,
          intermediate_results |-> {}, last_observation |-> None]

\* context = {"input": ..., "thoughts": [], "current_step": 0, "intermediate_results": {}}
\* (the key last_observation is absent until the first observation: None)
NewContext(input_data) ==
    [input |-> input_data, thoughts |-> <<>>, current_step |-> 0,
     intermediate_results |-> {}, last_observation |-> None]

\* faulty variant: one cycle too many
LoopTestOffByOne(step) == step <= max_steps

\* faulty variant: the step counter is kept on the service, shared by its runs
LoopTestShared(step) == \A r \in Runs : context[r].current_step < max_steps

\* while current_step < self.max_steps
LoopTest(step) == step < max_steps

\* faulty variant: a step number is skipped
NextStepSkips(step) == step + 2

\* current_step += 1
NextStep(step) == step + 1

\* the input of opper.call in _react_reasoning
ReasoningRequest(ctx) ==
    [call |-> "reasoning", context |-> ctx, step_number |-> ctx.current_step,
     last_observation |-> ctx.last_observation]

\* the input of opper.call in _react_action_selection
DecisionRequest(ctx, reasoning) ==
    [call |-> "decision", reasoning |-> TheValue(reasoning.content),
     reasoning_confidence |-> TheValue(reasoning.confidence), context |-> ctx,
     available_tools |-> tools, step_number |-> ctx.current_step]

\* for key, value in tool_params.items():
\*     if hasattr(value, "model_dump"): tool_params[key] = value.model_dump()
ConvertParams(tool_params) ==
    {<<p[1], IF HasModelDump(p[2]) THEN ModelDump(p[2]) ELSE p[2]>> : p \in tool_params}

ToolRequest(tool_name, tool_params) ==
    [call |-> "tool", tool_name |-> tool_name, tool_params |-> tool_params]

\* faulty variant: the registry is not consulted
ToolMissingUnchecked(tool_name) == FALSE

\* tool_name not in self.tools
ToolMissing(tool_name) == \A i \in 1..Len(tools) : tools[i] # tool_name

ToolNotFoundMessage(tool_name) ==
    "Tool '" \o tool_name \o "' not found. Available tools: " \o PyListStr(tools)

\* faulty variant: the failure's text is dropped
ToolErrorMessageBare(tool_name, e) == "Error executing tool " \o tool_name

ToolErrorMessage(tool_name, e) == "Error executing tool " \o tool_name \o ": " \o e

\* self.max_steps = 15
DefaultMaxSteps == 15

\* faulty variant: the message names the default, not the configured maximum
MaxStepsMessageDefault ==
    "Reached maximum number of steps (" \o ToString(DefaultMaxSteps) \o ")"

MaxStepsMessage == "Reached maximum number of steps (" \o ToString(max_steps) \o ")"

\* faulty variant: the entries of the earlier steps are dropped
ObserveOverwrites(ctx, result) ==
    [ctx EXCEPT !.last_observation = Some(PyStr(result)),
                !.intermediate_results = {<<StepKey(ctx.current_step), result>>}]

\* context["last_observation"] = observation
\* context["intermediate_results"][f"step_{current_step}"] = result
Observe(ctx, result) ==
    [ctx EXCEPT !.last_observation = Some(PyStr(result)),
                !.intermediate_results = Put(@, StepKey(ctx.current_step), result)]

Completed(r, response) ==
    calls' = [calls EXCEPT ![r] = Append(@, [request |-> request[r], response |-> response])]

\* run_agent ends: it returns or raises `result`
Exit(r, result) ==
    /\ pc' = [pc EXCEPT ![r] = "done"]
    /\ outcome' = [outcome EXCEPT ![r] = result]
    /\ request' = [request EXCEPT ![r] = NoRequest]

\* the recording calls among `points` whose flag is FALSE have failed
Recorded(r, failed) == recFail' = [recFail EXCEPT ![r] = @ \cup failed]

Failed(point, ok) == IF ok THEN {} ELSE {point}

\* lines 97-118: the root span's input is recorded, the context is created
StartRun(r, input_data, rootInOk) ==
    /\ pc[r] = "idle"
    /\ Recorded(r, Failed("root_input", rootInOk))
    /\ IF rootInOk
       THEN /\ context' = [context EXCEPT ![r] = NewContext(input_data)]
            /\ pc' = [pc EXCEPT ![r] = "loop"]
            /\ UNCHANGED <<request, outcome>>
       ELSE /\ Exit(r, Raised(RecordingFailure))
            /\ UNCHANGED context
    /\ UNCHANGED <<gh_tool, tools, max_steps, registered, calls>>

\* faulty variant: the tool's coroutine is not awaited, the next cycle starts
\* while the tool invocation is outstanding
StartCycleEager(r, cycleInOk) ==
    /\ pc[r] \in {"loop", "tool"}
    /\ LoopTest(context[r].current_step)
    /\ context' = [context EXCEPT ![r].current_step = NextStep(@)]
    /\ Recorded(r, Failed("cycle_input", cycleInOk))
    /\ IF cycleInOk
       THEN /\ request' = [request EXCEPT ![r] = ReasoningRequest(context'[r])]
            /\ pc' = [pc EXCEPT ![r] = "reasoning"]
            /\ UNCHANGED outcome
       ELSE Exit(r, Raised(RecordingFailure))
    /\ UNCHANGED <<gh_tool, tools, max_steps, registered, calls>>

\* lines 120-132: a cycle starts, its span's input is recorded, the Reasoning
\* Oracle is called
StartCycle(r, cycleInOk) ==
    /\ pc[r] = "loop"
    /\ LoopTest(context[r].current_step)
    /\ context' = [context EXCEPT ![r].current_step = NextStep(@)]
    /\ Recorded(r, Failed("cycle_input", cycleInOk))
    /\ IF cycleInOk
       THEN /\ request' = [request EXCEPT ![r] = ReasoningRequest(context'[r])]
            /\ pc' = [pc EXCEPT ![r] = "reasoning"]
            /\ UNCHANGED outcome
       ELSE Exit(r, Raised(RecordingFailure))
    /\ UNCHANGED <<gh_tool, tools, max_steps, registered, calls>>

\* lines 229-240: the loop ends without a Finish
MaxStepsReached(r, rootOutOk) ==
    /\ pc[r] = "loop"
    /\ ~LoopTest(context[r].current_step)
    /\ Recorded(r, Failed("root_output", rootOutOk))
    /\ Exit(r, Returned(ErrorResult(MaxStepsMessage), "max_steps"))
    /\ UNCHANGED <<gh_tool, tools, max_steps, registered, context, calls>>

\* lines 132-146: the Reasoning Oracle answers, the confidence metric is
\* recorded, the Decision Oracle is called
ReasoningReturns(r, response, metricOk) ==
    /\ pc[r] = "reasoning"
    /\ Completed(r, response)
    /\ IF response.status = "exception"
       THEN /\ metricOk
            /\ Recorded(r, {})
            /\ Exit(r, Raised(response.message))
       ELSE IF ~AgentReasoningValid(response)
       THEN /\ metricOk
            /\ Recorded(r, {})
            /\ Exit(r, Raised(ReasoningValidationError))
       ELSE /\ Recorded(r, Failed("metric", metricOk))
            /\ IF metricOk
               THEN /\ request' = [request EXCEPT ![r] = DecisionRequest(context[r], response)]
                    /\ pc' = [pc EXCEPT ![r] = "decision"]
                    /\ UNCHANGED outcome
               ELSE Exit(r, Raised(RecordingFailure))
    /\ UNCHANGED <<gh_tool, tools, max_steps, registered, context>>

\* lines 146-203: the Decision Oracle answers; the run finishes, fails on a
\* tool that is not registered, calls the tool, or goes round the loop
DecisionReturns(r, response, cycleOutOk, rootOutOk) ==
    /\ pc[r] = "decision"
    /\ Completed(r, response)
    /\ IF response.status = "exception"
       THEN /\ cycleOutOk /\ rootOutOk
            /\ Recorded(r, {})
            /\ Exit(r, Raised(response.message))
       ELSE IF ~AgentActionValid(response)
       THEN /\ cycleOutOk /\ rootOutOk
            /\ Recorded(r, {})
            /\ Exit(r, Raised(ActionValidationError))
       ELSE IF response.action_type = Some("finish")
       THEN LET final_output == OrEmptyDict(response.output) IN
            IF cycleOutOk
            THEN /\ Recorded(r, Failed("root_output", rootOutOk))
                 /\ Exit(r, Returned(final_output, "finish"))
            ELSE /\ rootOutOk
                 /\ Recorded(r, {"cycle_output"})
                 /\ Exit(r, Raised(RecordingFailure))
       ELSE IF response.action_type = Some("use_tool") /\ TruthyStr(response.tool_name)
       THEN LET tool_name == TheValue(response.tool_name)
                tool_params == OrEmptyDict(response.tool_params) IN
            IF ToolMissing(tool_name)
            THEN /\ cycleOutOk
                 /\ Recorded(r, Failed("root_output", rootOutOk))
                 /\ Exit(r, Returned(ErrorResult(ToolNotFoundMessage(tool_name)),
                                     "tool_not_found"))
            ELSE /\ cycleOutOk /\ rootOutOk
                 /\ Recorded(r, {})
                 /\ request' = [request EXCEPT
                                  ![r] = ToolRequest(tool_name, ConvertParams(tool_params))]
                 /\ pc' = [pc EXCEPT ![r] = "tool"]
                 /\ UNCHANGED outcome
       ELSE /\ cycleOutOk /\ rootOutOk
            /\ Recorded(r, {})
            /\ request' = [request EXCEPT ![r] = NoRequest]
            /\ pc' = [pc EXCEPT ![r] = "loop"]
            /\ UNCHANGED outcome
    /\ UNCHANGED <<gh_tool, tools, max_steps, registered, context>>

\* faulty variant: a result that reports an error is taken for a failure
ToolThrewOrReported(response) ==
    response.status = "throw" \/ HasKey(response.result, "error")

\* except Exception as e: the awaited tool raised
ToolThrew(response) == response.status = "throw"

\* lines 203-227: the tool returns or throws; the observation is recorded in
\* the cycle span and stored in the context
ToolReturns(r, response, cycleOutOk, rootOutOk) ==
    /\ pc[r] = "tool"
    /\ Completed(r, response)
    /\ IF ToolThrew(response)
       THEN /\ cycleOutOk
            /\ Recorded(r, Failed("root_output", rootOutOk))
            /\ Exit(r, Returned(ErrorResult(ToolErrorMessage(request[r].tool_name,
                                                             response.message)),
                                "tool_error"))
            /\ UNCHANGED context
       ELSE IF ~cycleOutOk
       THEN /\ Recorded(r, {"cycle_output"} \cup Failed("root_output", rootOutOk))
            /\ Exit(r, Returned(ErrorResult(ToolErrorMessage(request[r].tool_name,
                                                             RecordingFailure)),
                                "tool_error"))
            /\ UNCHANGED context
       ELSE /\ rootOutOk
            /\ Recorded(r, {})
            /\ context' = [context EXCEPT ![r] = Observe(@, response.result)]
            /\ request' = [request EXCEPT ![r] = NoRequest]
            /\ pc' = [pc EXCEPT ![r] = "loop"]
            /\ UNCHANGED outcome
    /\ UNCHANGED <<gh_tool, tools, max_steps, registered>>

\* faulty variant: the mapping is merged into the registry (dict.update)
RegisterToolsAdditive(new_tools) ==
    /\ Len(registered) < MaxRegistrations
    /\ tools' = tools \o SelectSeq(new_tools, LAMBDA n : \A i \in 1..Len(tools) : tools[i] # n)
    /\ registered' = Append(registered, new_tools)
    /\ UNCHANGED <<gh_tool, max_steps, pc, context, request, calls, recFail, outcome>>

\* register_tools: self.tools = tools
RegisterTools(new_tools) ==
    /\ Len(registered) < MaxRegistrations
    /\ tools' = new_tools
    /\ registered' = Append(registered, new_tools)
    /\ UNCHANGED <<gh_tool, max_steps, pc, context, request, calls, recFail, outcome>>

-----------------------------------------------------------------------------
(* One run on a configured service *)

\* the service when run_agent is called: __init__ has run, register_tools and
\* an assignment to max_steps may have
Init ==
    /\ tools \in Registries
    /\ registered = IF tools = <<>> THEN <<>> ELSE <<tools>>
    /\ max_steps \in 0..MaxStepsBound
    /\ pc = [r \in Runs |-> "idle"]
    /\ context = [r \in Runs |-> NewContext({})]
    /\ request = [r \in Runs |-> NoRequest]
    /\ calls = [r \in Runs |-> <<>>]
    /\ recFail = [r \in Runs |-> {}]
    /\ outcome = [r \in Runs |-> NoOutcome]
    /\ gh_tool = NotCalled

Next ==
    \/ \E input_data \in Inputs, ok \in BOOLEAN : StartRun(1, input_data, ok)
    \/ \E ok \in BOOLEAN : StartCycle(1, ok)
    \/ \E ok \in BOOLEAN : MaxStepsReached(1, ok)
    \/ \E response \in ReasoningResponses, ok \in BOOLEAN : ReasoningReturns(1, response, ok)
    \/ \E response \in DecisionResponses, ok1, ok2 \in BOOLEAN :
          DecisionReturns(1, response, ok1, ok2)
    \/ \E response \in ToolResponses, ok1, ok2 \in BOOLEAN :
          ToolReturns(1, response, ok1, ok2)

Spec == Init /\ [][Next]_vars

-----------------------------------------------------------------------------
(* Vocabulary of the properties *)

Done(r) == pc[r] = "done"

IsCall(c, kind) == c.request.call = kind

\* the calls of one kind run r has issued, completed or outstanding
Issued(r, kind) ==
    Len(SelectSeq(calls[r], LAMBDA c : IsCall(c, kind)))
    + (IF request[r].call = kind THEN 1 ELSE 0)

\* the number of cycles run r has started
Cycles(r) == context[r].current_step

\* the recording calls run_agent makes outside any try block
Unguarded == {"root_input", "cycle_input", "metric", "cycle_output"}

\* no recording call the run depends on has failed
RecordingWorked(r) == recFail[r] \cap Unguarded = {}

ValidReasoning(resp) == resp.status = "ok" /\ AgentReasoningValid(resp)

ValidAction(resp) == resp.status = "ok" /\ AgentActionValid(resp)

IsFinish(resp) == ValidAction(resp) /\ resp.action_type = Some("finish")

\* a UseTool action: the tag use_tool and a non-empty tool name
IsUseTool(resp) ==
    ValidAction(resp) /\ resp.action_type = Some("use_tool") /\ TruthyStr(resp.tool_name)

InList(names, n) == \E i \in 1..Len(names) : names[i] = n

\* a UseTool action naming a tool of the registry the Decision Oracle was shown
IsRegisteredUseTool(c) ==
    IsUseTool(c.response) /\ InList(c.request.available_tools, TheValue(c.response.tool_name))

FinalOutputShape(m) ==
    /\ HasKey(m, "review_summary") /\ Get(m, "review_summary") # ""
    /\ HasKey(m, "overall_assessment")
    /\ ~HasKey(m, "error")

ErrorResultShape(m) == HasKey(m, "error")

\* the run returned {"error": message} and nothing else
ReturnedError(r) == outcome[r].kind = "returned" /\ Keys(outcome[r].value) = {"error"}

ErrorMessage(r) == Get(outcome[r].value, "error")

-----------------------------------------------------------------------------
(* C1 (stated; the code violates it): run_agent never raises past its own
   boundary.  Every run that has ended, the runs whose Reasoning or Decision
   Oracle call failed included, has returned a mapping, and a run whose oracle
   call failed has returned an ErrorResult.  Stated for the runs in which no
   recording call failed, so that the violation is one an oracle causes. *)
C1_NeverRaises ==
    \A r \in Runs :
        (Done(r) /\ recFail[r] = {}) =>
            /\ outcome[r].kind = "returned"
            /\ (\E i \in 1..Len(calls[r]) :
                    \/ IsCall(calls[r][i], "reasoning") /\ ~ValidReasoning(calls[r][i].response)
                    \/ IsCall(calls[r][i], "decision") /\ ~ValidAction(calls[r][i].response))
               => ReturnedError(r)

(* C2 (stated; the code violates it): every run that returns returns exactly
   one of the two shapes, FinalOutput (non-empty review_summary and an
   overall_assessment, no error field) or ErrorResult (an error field). *)
C2_ExactlyOneShape ==
    \A r \in Runs :
        outcome[r].kind = "returned" =>
            (FinalOutputShape(outcome[r].value) # ErrorResultShape(outcome[r].value))

\* every oracle and tool answer run r has received is the usual one: a valid
\* ReasoningResult, a UseTool naming a registered tool, a tool result
AlwaysUseTool(r) ==
    \A i \in 1..Len(calls[r]) :
        LET c == calls[r][i] IN
        /\ IsCall(c, "reasoning") => ValidReasoning(c.response)
        /\ IsCall(c, "decision") => IsRegisteredUseTool(c)
        /\ IsCall(c, "tool") => c.response.status = "return"

(* C3: with max_steps = N and a Decision Oracle that answers UseTool with a
   registered tool that succeeds on every cycle, the run ends with the
   step-budget ErrorResult after exactly N cycles: N Reasoning calls, N
   Decision calls and N tool invocations (none of them when N = 0).  Stated
   for the runs whose Reasoning answers validate and whose unguarded recording
   calls succeed. *)
C3_StepBudgetExact ==
    \A r \in Runs :
        (Done(r) /\ RecordingWorked(r) /\ AlwaysUseTool(r)) =>
            /\ outcome[r] = Returned(ErrorResult(MaxStepsMessage), "max_steps")
            /\ Contains(ErrorMessage(r), ToString(max_steps))
            /\ Cycles(r) = max_steps
            /\ Issued(r, "reasoning") = max_steps
            /\ Issued(r, "decision") = max_steps
            /\ Issued(r, "tool") = max_steps

C3_Witness ==
    /\ Done(1) /\ RecordingWorked(1) /\ AlwaysUseTool(1)
    /\ max_steps = 3
    /\ Issued(1, "tool") = 3
    /\ outcome[1].exit = "max_steps"

(* C4: when the Decision Oracle answers Finish with an output mapping in
   cycle k, run_agent returns exactly that mapping and stops: it has made k
   Reasoning calls and k Decision calls, the Finish answer is the last call of
   the run, and every tool invocation belongs to an earlier cycle.  Stated for
   the runs in which recording the cycle's output succeeds. *)
C4_FinishReturnsOutput ==
    \A r \in Runs : \A i \in 1..Len(calls[r]) :
        LET c == calls[r][i] IN
        (/\ IsCall(c, "decision") /\ IsFinish(c.response)
         /\ c.response.output # None
         /\ "cycle_output" \notin recFail[r]) =>
            /\ i = Len(calls[r]) /\ Done(r) /\ request[r] = NoRequest
            /\ outcome[r] = Returned(TheValue(c.response.output), "finish")
            /\ Cycles(r) = c.request.step_number
            /\ Issued(r, "reasoning") = c.request.step_number
            /\ Issued(r, "decision") = c.request.step_number
            /\ Issued(r, "tool") < c.request.step_number

C4_Witness ==
    /\ Done(1) /\ outcome[1] = Returned(GoodOutput, "finish")
    /\ Issued(1, "reasoning") = 1 /\ Issued(1, "decision") = 1 /\ Issued(1, "tool") = 0

(* C5: when the Decision Oracle answers UseTool with a (non-empty) tool name
   that is not in the registry, the run ends in that cycle with an ErrorResult
   whose message names the missing tool and lists the registered names; the
   answer is the last call of the run (no tool is invoked, no further oracle
   call), and RunState is as the Decision Oracle saw it, without an
   observation for the step. *)
C5_ToolNotFound ==
    \A r \in Runs : \A i \in 1..Len(calls[r]) :
        LET c == calls[r][i] IN
        (/\ IsCall(c, "decision") /\ IsUseTool(c.response)
         /\ ~InList(c.request.available_tools, TheValue(c.response.tool_name))) =>
            /\ i = Len(calls[r]) /\ Done(r) /\ request[r] = NoRequest
            /\ ReturnedError(r) /\ outcome[r].exit = "tool_not_found"
            /\ Contains(ErrorMessage(r), "'" \o TheValue(c.response.tool_name) \o "'")
            /\ \A j \in 1..Len(c.request.available_tools) :
                  Contains(ErrorMessage(r), c.request.available_tools[j])
            /\ context[r] = c.request.context
            /\ ~HasKey(context[r].intermediate_results, StepKey(Cycles(r)))

C5_Witness ==
    /\ Done(1) /\ outcome[1].exit = "tool_not_found"
    /\ tools = <<"github_pr_tool">>
    /\ Cycles(1) = 2 /\ Issued(1, "tool") = 1
    /\ Contains(ErrorMessage(1), "web_search") /\ Contains(ErrorMessage(1), "github_pr_tool")

(* C6: when a registered tool throws in cycle k, the run ends in that cycle
   with an ErrorResult whose message contains the failure's message text; the
   throwing invocation is the last call of the run (no retry, no further
   cycle), and RunState is as it was at the start of cycle k, without an entry
   for step k. *)
C6_ToolThrows ==
    \A r \in Runs : \A i \in 1..Len(calls[r]) :
        LET c == calls[r][i] IN
        (IsCall(c, "tool") /\ c.response.status = "throw") =>
            /\ i = Len(calls[r]) /\ Done(r) /\ request[r] = NoRequest
            /\ ReturnedError(r) /\ outcome[r].exit = "tool_error"
            /\ Contains(ErrorMessage(r), c.response.message)
            /\ i > 2 /\ IsCall(calls[r][i - 2], "reasoning")
            /\ context[r] = calls[r][i - 2].request.context
            /\ ~HasKey(context[r].intermediate_results, StepKey(Cycles(r)))

C6_Witness ==
    /\ Done(1) /\ outcome[1].exit = "tool_error"
    /\ Contains(ErrorMessage(1), "connection reset")
    /\ Cycles(1) = 2 /\ Keys(context[1].intermediate_results) = {StepKey(1)}

\* an answer of the Reasoning Oracle that is no ReasoningResult
NotAReasoningResult(resp) ==
    /\ resp.status = "ok"
    /\ \/ resp.content = None
       \/ resp.confidence = None
       \/ TheValue(resp.confidence) < 0
       \/ TheValue(resp.confidence) > ConfidenceOne

(* C7: a ReasoningResult that fails validation (confidence outside [0.0, 1.0]
   or no content) is rejected, not clamped: no Decision Oracle request, sent
   or outstanding, carries a confidence outside [0, 1], and a rejected answer
   is the last call of its run (no Decision call, no tool invocation). *)
C7_InvalidReasoningRejected ==
    \A r \in Runs :
        /\ request[r].call = "decision" =>
              request[r].reasoning_confidence \in 0..ConfidenceOne
        /\ \A i \in 1..Len(calls[r]) :
              LET c == calls[r][i] IN
              /\ IsCall(c, "decision") => c.request.reasoning_confidence \in 0..ConfidenceOne
              /\ (IsCall(c, "reasoning") /\ NotAReasoningResult(c.response)) =>
                    /\ i = Len(calls[r]) /\ Done(r) /\ request[r] = NoRequest
                    /\ outcome[r].exit # "finish"

C7_Witness ==
    /\ Done(1) /\ Len(calls[1]) = 3
    /\ IsCall(calls[1][3], "reasoning")
    /\ calls[1][3].response.confidence = Some(15)
    /\ Issued(1, "decision") = 1

(* C8 (stated; the code violates it): the returned mapping contains an error
   field if and only if the run ended in FAILED; a run that ended through a
   Finish action never returns a mapping with an error field. *)
C8_ErrorFieldIffFailed ==
    \A r \in Runs :
        outcome[r].kind = "returned" =>
            (HasKey(outcome[r].value, "error") <=> outcome[r].exit # "finish")

(* C9 (stated; the code violates it): a recording failure is caught and
   logged and never becomes or replaces the run's result: no run ends by
   raising the recording failure, and no run returns an ErrorResult made of
   it. *)
C9_RecordingNeverDecides ==
    \A r \in Runs :
        Done(r) =>
            /\ ~(outcome[r].kind = "raised" /\ outcome[r].exc = RecordingFailure)
            /\ ~(ReturnedError(r) /\ Contains(ErrorMessage(r), RecordingFailure))

-----------------------------------------------------------------------------
(* A run and its replay: run 2 is given the input of run 1 and, call by call,
   the answers run 1 received *)

\* the answer run 1 received at the position run r has reached, when run r is
\* waiting for a call of the same kind
Replayed(r) ==
    LET n == Len(calls[r]) + 1 IN
    IF n <= Len(calls[1]) /\ calls[1][n].request.call = request[r].call
    THEN {calls[1][n].response}
    ELSE {}

InitReplay ==
    /\ tools \in Registries
    /\ registered = IF tools = <<>> THEN <<>> ELSE <<tools>>
    /\ max_steps \in 0..MaxReplaySteps
    /\ pc = [r \in Runs |-> "idle"]
    /\ context = [r \in Runs |-> NewContext({})]
    /\ request = [r \in Runs |-> NoRequest]
    /\ calls = [r \in Runs |-> <<>>]
    /\ recFail = [r \in Runs |-> {}]
    /\ outcome = [r \in Runs |-> NoOutcome]
    /\ gh_tool = NotCalled

NextReplay ==
    \/ Next
    \/ \E ok \in BOOLEAN :
          /\ pc[1] = "done" /\ "root_input" \notin recFail[1]
          /\ StartRun(2, context[1].input, ok)
    \/ \E ok \in BOOLEAN : StartCycle(2, ok)
    \/ \E ok \in BOOLEAN : MaxStepsReached(2, ok)
    \/ \E response \in Replayed(2), ok \in BOOLEAN : ReasoningReturns(2, response, ok)
    \/ \E response \in Replayed(2), ok1, ok2 \in BOOLEAN :
          DecisionReturns(2, response, ok1, ok2)
    \/ \E response \in Replayed(2), ok1, ok2 \in BOOLEAN :
          ToolReturns(2, response, ok1, ok2)

SpecReplay == InitReplay /\ [][NextReplay]_vars

Responses(r) == [i \in 1..Len(calls[r]) |-> calls[r][i].response]

\* the RunState values run r has shown to the oracles, and its last one
RunStates(r) ==
    Append([i \in 1..Len(calls[r]) |->
               IF IsCall(calls[r][i], "tool") THEN calls[r][i - 1].request.context
               ELSE calls[r][i].request.context],
           context[r])

(* C10: two runs with the same configuration and the same input, each on a
   fresh RunState, that receive the identical sequence of Reasoning, Decision
   and tool answers end with the identical result, after the identical
   sequence of requests and of RunState values.  Stated for the runs whose
   unguarded recording calls succeed. *)
C10_ReplayDeterministic ==
    (/\ Done(1) /\ Done(2)
     /\ RecordingWorked(1) /\ RecordingWorked(2)
     /\ context[1].input = context[2].input
     /\ Responses(1) = Responses(2)) =>
        /\ outcome[1] = outcome[2]
        /\ RunStates(1) = RunStates(2)
        /\ calls[1] = calls[2]

C10_Witness ==
    /\ Done(1) /\ Done(2)
    /\ RecordingWorked(1) /\ RecordingWorked(2)
    /\ Responses(1) = Responses(2)
    /\ Len(calls[2]) = 5
    /\ Issued(2, "tool") = 1
    /\ outcome[2].exit = "finish"

-----------------------------------------------------------------------------
(* Two runs interleaved on one service.  Runs 1 and 2 are started in any
   order and take their steps in any order; when both have ended, run 3 is
   given what run 1 was given and run 4 what run 2 was given, each executed
   alone.  The recording calls succeed. *)

\* the answer run src received at the position run r has reached
ReplayedFrom(r, src) ==
    LET n == Len(calls[r]) + 1 IN
    IF n <= Len(calls[src]) /\ calls[src][n].request.call = request[r].call
    THEN {calls[src][n].response}
    ELSE {}

ConcReasoning ==
    {resp \in ReasoningResponses :
        resp.content # None /\ resp.confidence \in {Some(ConfidenceOne), Some(15)}}

ConcDecisions ==
    {resp \in DecisionResponses :
        \/ resp.action_type = Some("finish") /\ resp.output = Some(GoodOutput)
        \/ resp.action_type = Some("use_tool") /\ TruthyStr(resp.tool_name)
        \/ resp.action_type = Some("think")}

ConcTools ==
    {resp \in ToolResponses :
        resp.status = "throw" \/ Get(resp.result, "status") = "success"}

InitConc ==
    /\ tools \in Registries
    /\ registered = IF tools = <<>> THEN <<>> ELSE <<tools>>
    /\ max_steps \in 0..MaxConcSteps
    /\ pc = [r \in Runs |-> "idle"]
    /\ context = [r \in Runs |-> NewContext({})]
    /\ request = [r \in Runs |-> NoRequest]
    /\ calls = [r \in Runs |-> <<>>]
    /\ recFail = [r \in Runs |-> {}]
    /\ outcome = [r \in Runs |-> NoOutcome]
    /\ gh_tool = NotCalled

\* a step of run r, one of the two interleaved runs
ConcStep(r) ==
    \/ \E input_data \in Inputs : StartRun(r, input_data, TRUE)
    \/ StartCycle(r, TRUE)
    \/ MaxStepsReached(r, TRUE)
    \/ \E response \in ConcReasoning : ReasoningReturns(r, response, TRUE)
    \/ \E response \in ConcDecisions : DecisionReturns(r, response, TRUE, TRUE)
    \/ \E response \in ConcTools : ToolReturns(r, response, TRUE, TRUE)

\* a step of run r, executed alone with the input and the answers of run src
AloneStep(r, src) ==
    \/ StartRun(r, context[src].input, TRUE)
    \/ StartCycle(r, TRUE)
    \/ MaxStepsReached(r, TRUE)
    \/ \E response \in ReplayedFrom(r, src) : ReasoningReturns(r, response, TRUE)
    \/ \E response \in ReplayedFrom(r, src) : DecisionReturns(r, response, TRUE, TRUE)
    \/ \E response \in ReplayedFrom(r, src) : ToolReturns(r, response, TRUE, TRUE)

NextConc ==
    \/ ConcStep(1)
    \/ ConcStep(2)
    \/ pc[1] = "done" /\ pc[2] = "done" /\ AloneStep(3, 1)
    \/ pc[3] = "done" /\ AloneStep(4, 2)

SpecConc == InitConc /\ [][NextConc]_vars

\* everything the model keeps for run r
RunVars(r) == <<pc[r], context[r], request[r], calls[r], recFail[r], outcome[r]>>

\* run r has ended as run src did, after the same requests and answers
SameAsAlone(r, src) ==
    pc[r] = "done" =>
        /\ outcome[r] = outcome[src]
        /\ calls[r] = calls[src]
        /\ RunStates(r) = RunStates(src)

(* C11: two runs interleaved on one service, with no register_tools call
   after registration, share no mutable state.  A step changes the variables
   of one run only, a run's RunState changes only at that run's own steps
   (its start, the start of one of its cycles, the return of its tool), and
   each run ends with the result, the requests and the RunState values of the
   same run executed alone with the same input and answers. *)
C11_RunsIndependent ==
    /\ [](SameAsAlone(3, 1) /\ SameAsAlone(4, 2))
    /\ [][\A r \in Runs :
            /\ \A s \in Runs \ {r} : RunVars(r)' = RunVars(r) \/ RunVars(s)' = RunVars(s)
            /\ context'[r] # context[r] =>
                   /\ pc[r] \in {"idle", "loop", "tool"}
                   /\ pc'[r] # pc[r] \/ context'[r].current_step = context[r].current_step + 1
            /\ tools' = tools /\ max_steps' = max_steps]_vars

C11_Witness ==
    /\ \A r \in Runs : pc[r] = "done"
    /\ outcome[1].exit = "finish" /\ Issued(1, "tool") = 1
    /\ outcome[2].exit = "tool_error" /\ Cycles(2) = 2
    /\ calls[3] = calls[1] /\ calls[4] = calls[2]

-----------------------------------------------------------------------------
(* The service from its construction: register_tools is called any number of
   times, then run_agent, as main does *)

InitRegistry ==
    /\ tools = <<>>
    /\ registered = <<>>
    /\ max_steps \in 0..MaxRegistrySteps
    /\ pc = [r \in Runs |-> "idle"]
    /\ context = [r \in Runs |-> NewContext({})]
    /\ request = [r \in Runs |-> NoRequest]
    /\ calls = [r \in Runs |-> <<>>]
    /\ recFail = [r \in Runs |-> {}]
    /\ outcome = [r \in Runs |-> NoOutcome]
    /\ gh_tool = NotCalled

NextRegistry ==
    \/ pc[1] = "idle" /\ \E new_tools \in Registries : RegisterTools(new_tools)
    \/ Next

SpecRegistry == InitRegistry /\ [][NextRegistry]_vars

\* the mapping given in the last register_tools call (none: the empty registry)
LastRegistered == IF registered = <<>> THEN <<>> ELSE registered[Len(registered)]

\* a name some call before the last one registered and the last one did not
RegisteredOnlyEarlier(n) ==
    /\ ~InList(LastRegistered, n)
    /\ \E j \in 1..(Len(registered) - 1) : InList(registered[j], n)

(* C12: register_tools replaces the registry, it does not add to it.  After
   any sequence of register_tools calls the registered names are exactly the
   names of the mapping given in the last call; in a run started afterwards
   every tool list sent to the Decision Oracle is that list, and a UseTool
   answer naming a tool that only an earlier call registered ends the run with
   the tool-not-found ErrorResult, without a tool invocation. *)
C12_RegisterReplaces ==
    /\ tools = LastRegistered
    /\ request[1].call = "decision" => request[1].available_tools = LastRegistered
    /\ \A i \in 1..Len(calls[1]) :
          LET c == calls[1][i] IN
          IsCall(c, "decision") =>
              /\ c.request.available_tools = LastRegistered
              /\ (IsUseTool(c.response)
                  /\ RegisteredOnlyEarlier(TheValue(c.response.tool_name))) =>
                    /\ i = Len(calls[1]) /\ Done(1)
                    /\ ReturnedError(1) /\ outcome[1].exit = "tool_not_found"
                    /\ Contains(ErrorMessage(1), "not found")

C12_Witness ==
    /\ registered = << <<"github_pr_tool", "web_search">>, <<"github_pr_tool">> >>
    /\ Done(1) /\ outcome[1].exit = "tool_not_found"
    /\ Contains(ErrorMessage(1), "'web_search' not found")
    /\ Issued(1, "tool") = 1

-----------------------------------------------------------------------------
(* The step counter *)

\* the number of calls of one kind among the first i completed calls of run r
CountUpTo(r, i, kind) == Cardinality({j \in 1..i : IsCall(calls[r][j], kind)})

(* C13: in every reachable state of a run 0 <= current_step <= max_steps; the
   counter is 0 until the first cycle, changes only when a cycle starts, and
   then grows by exactly 1, so that the Reasoning and the Decision request of
   the k-th cycle carry the step number k. *)
C13_StepCounter ==
    /\ [](\A r \in Runs :
            /\ Cycles(r) \in 0..max_steps
            /\ pc[r] = "idle" => Cycles(r) = 0
            /\ request[r].call \in {"reasoning", "decision"} =>
                   /\ request[r].step_number = Cycles(r)
                   /\ Issued(r, request[r].call) = Cycles(r)
            /\ \A i \in 1..Len(calls[r]) :
                   LET c == calls[r][i] IN
                   /\ IsCall(c, "reasoning") =>
                          c.request.step_number = CountUpTo(r, i, "reasoning")
                   /\ IsCall(c, "decision") =>
                          c.request.step_number = CountUpTo(r, i, "decision"))
    /\ [][\A r \in Runs :
            Cycles(r)' # Cycles(r) =>
                /\ pc[r] = "loop"
                /\ Cycles(r)' = Cycles(r) + 1]_vars

C13_Witness ==
    /\ max_steps = 3 /\ Cycles(1) = 3
    /\ request[1].call = "decision" /\ request[1].step_number = 3
    /\ Len(calls[1]) = 7
    /\ calls[1][7].request.step_number = 3 /\ calls[1][4].request.step_number = 2

-----------------------------------------------------------------------------
(* Actions that are neither UseTool nor Finish *)

\* an answer that validates as AgentAction and is neither a Finish nor a
\* UseTool with a tool name
IsNoAction(resp) == ValidAction(resp) /\ ~IsFinish(resp) /\ ~IsUseTool(resp)

(* C14 (stated; the code violates it): an Action that is neither a valid
   UseTool nor a Finish is a validation failure.  When the Decision Oracle
   answers with a tag other than use_tool or finish, or with use_tool and an
   empty or absent tool name, the run ends in that cycle with an ErrorResult:
   the answer is the last call of the run.  Stated for the runs in which no
   recording call failed. *)
C14_InvalidActionFails ==
    \A r \in Runs : \A i \in 1..Len(calls[r]) :
        LET c == calls[r][i] IN
        (IsCall(c, "decision") /\ IsNoAction(c.response) /\ recFail[r] = {}) =>
            /\ i = Len(calls[r]) /\ Done(r) /\ request[r] = NoRequest
            /\ ReturnedError(r)

-----------------------------------------------------------------------------
(* Finish without an output *)

(* C15: when the Decision Oracle answers Finish with the output absent or
   empty, run_agent returns the empty mapping, which has no error field, and
   stops: the answer is the last call of the run and no further cycle starts.
   Stated for the runs in which recording the cycle's output succeeds. *)
C15_FinishWithoutOutput ==
    \A r \in Runs : \A i \in 1..Len(calls[r]) :
        LET c == calls[r][i] IN
        (/\ IsCall(c, "decision") /\ IsFinish(c.response)
         /\ c.response.output \in {None, Some({})}
         /\ "cycle_output" \notin recFail[r]) =>
            /\ i = Len(calls[r]) /\ Done(r) /\ request[r] = NoRequest
            /\ outcome[r] = Returned({}, "finish")
            /\ ~HasKey(outcome[r].value, "error")
            /\ Cycles(r) = c.request.step_number

C15_Witness ==
    /\ Done(1) /\ outcome[1] = Returned({}, "finish")
    /\ Len(calls[1]) = 5
    /\ calls[1][5].response.output = None
    /\ Cycles(1) = 2

-----------------------------------------------------------------------------
(* What a tool result leaves in RunState *)

\* the positions in the call log of run r of the tool invocations that returned
ToolSuccesses(r) ==
    {i \in 1..Len(calls[r]) : IsCall(calls[r][i], "tool") /\ calls[r][i].response.status = "return"}

\* the step of the tool invocation at position i: that of the Decision call before it
StepOf(r, i) == calls[r][i - 1].request.step_number

(* C16: after a successful tool invocation in cycle k the last observation is
   the stringified result of that invocation and intermediate_results maps
   the key of step k to the raw result.  At every point of the run the keys of
   intermediate_results are exactly the keys of the steps, none above
   current_step, whose tool invocation succeeded, one entry per key, each
   entry is the result its step received (so no later cycle changes it), the
   last observation is that of the latest such step, and the input is the one
   every earlier request carried.  Stated for the runs in which recording the
   cycle's output succeeds. *)
C16_ObservationStored ==
    \A r \in Runs :
        "cycle_output" \notin recFail[r] =>
            LET results == context[r].intermediate_results
                done == ToolSuccesses(r) IN
            /\ Keys(results) = {StepKey(StepOf(r, i)) : i \in done}
            /\ Cardinality(results) = Cardinality(Keys(results))
            /\ Cardinality(results) = Cardinality(done)
            /\ \A i \in done :
                  /\ StepOf(r, i) \in 1..Cycles(r)
                  /\ Get(results, StepKey(StepOf(r, i))) = calls[r][i].response.result
            /\ context[r].last_observation =
                  IF done = {} THEN None
                  ELSE LET last == CHOOSE i \in done : \A j \in done : j <= i IN
                       Some(ToString(calls[r][last].response.result))
            /\ \A i \in 1..Len(calls[r]) :
                  ~IsCall(calls[r][i], "tool") =>
                      calls[r][i].request.context.input = context[r].input

C16_Witness ==
    /\ pc[1] = "loop" /\ Cycles(1) = 3 /\ recFail[1] = {}
    /\ Keys(context[1].intermediate_results) = {StepKey(1), StepKey(3)}
    /\ Get(Get(context[1].intermediate_results, StepKey(1)), "status") = "error"
    /\ Get(Get(context[1].intermediate_results, StepKey(3)), "status") = "success"
    /\ context[1].last_observation = Some(ToString(calls[1][8].response.result))

-----------------------------------------------------------------------------
(* The thoughts of RunState *)

\* the reasoning contents run r received in its first n completed calls, oldest first
RECURSIVE ThoughtsUpTo(_, _)
ThoughtsUpTo(r, n) ==
    IF n = 0 THEN <<>>
    ELSE LET c == calls[r][n] IN
         IF IsCall(c, "reasoning") /\ ValidReasoning(c.response)
         THEN Append(ThoughtsUpTo(r, n - 1), TheValue(c.response.content))
         ELSE ThoughtsUpTo(r, n - 1)

(* C17 (stated; the code violates it): the thoughts of RunState are the
   append-only record of the prior reasoning.  The RunState sent to the
   Reasoning and Decision Oracles in cycle k holds, in order, the reasoning
   contents produced in cycles 1..k-1. *)
C17_ThoughtsRecorded ==
    \A r \in Runs : \A i \in 1..Len(calls[r]) :
        LET c == calls[r][i]
            cycleStart == IF IsCall(c, "reasoning") THEN i - 1 ELSE i - 2 IN
        (IsCall(c, "reasoning") \/ IsCall(c, "decision")) =>
            c.request.context.thoughts = ThoughtsUpTo(r, cycleStart)

-----------------------------------------------------------------------------
(* The parameters a tool receives *)

\* plain structured data: no typed object in the value, at any depth
IsPlainData(v) == v.kind = "plain"

\* the tool requests of run r, completed or outstanding
ToolRequests(r) ==
    {calls[r][i].request : i \in {j \in 1..Len(calls[r]) : IsCall(calls[r][j], "tool")}}
    \cup (IF request[r].call = "tool" THEN {request[r]} ELSE {})

(* C18 (stated; the code violates it): at every tool dispatch the parameter
   mapping the tool receives holds only plain structured data: every typed
   object with a model_dump has been replaced by its plain form, at the top
   level of the mapping and at any depth inside a nested mapping or list. *)
C18_ParamsPlain ==
    \A r \in Runs : \A req \in ToolRequests(r) :
        \A p \in req.tool_params : IsPlainData(p[2])

-----------------------------------------------------------------------------
(* The order of the external calls of a run *)

\* the requests run r has sent, oldest first, the outstanding one last
Requests(r) ==
    [i \in 1..Len(calls[r]) |-> calls[r][i].request]
    \o (IF request[r] = NoRequest THEN <<>> ELSE <<request[r]>>)

(* C19: within one run the external calls form one sequential chain.  At
   most one call is outstanding, the one run_agent is suspended at, and every
   request was sent after the call before it had completed: a Decision
   request follows the Reasoning answer of its cycle and carries its content,
   a tool request follows the Decision answer that selected the tool, and a
   Reasoning request follows the Decision answer or the tool result that ended
   the cycle before it, whose observation it carries; a Decision answer that
   selected a registered tool is followed by nothing but that tool's
   invocation. *)
C19_SequentialChain ==
    \A r \in Runs :
        LET reqs == Requests(r) IN
        /\ pc[r] \in {"reasoning", "decision", "tool"} <=> request[r] # NoRequest
        /\ request[r] # NoRequest => request[r].call = pc[r]
        /\ \A i \in 1..Len(reqs) :
              LET req == reqs[i] IN
              /\ i = 1 => req.call = "reasoning" /\ req.step_number = 1
              /\ i > 1 =>
                    LET prev == calls[r][i - 1] IN
                    /\ req.call = "decision" =>
                          /\ IsCall(prev, "reasoning") /\ ValidReasoning(prev.response)
                          /\ req.reasoning = TheValue(prev.response.content)
                          /\ req.step_number = prev.request.step_number
                    /\ req.call = "tool" =>
                          /\ IsCall(prev, "decision") /\ IsRegisteredUseTool(prev)
                          /\ req.tool_name = TheValue(prev.response.tool_name)
                    /\ req.call = "reasoning" =>
                          /\ \/ IsCall(prev, "decision") /\ IsNoAction(prev.response)
                             \/ /\ IsCall(prev, "tool") /\ prev.response.status = "return"
                                /\ req.last_observation = Some(ToString(prev.response.result))
                          /\ req.step_number = calls[r][i - 2].request.step_number + 1
                    /\ (IsCall(prev, "decision") /\ IsRegisteredUseTool(prev)) =>
                          req.call = "tool"

C19_Witness ==
    /\ pc[1] = "reasoning" /\ Cycles(1) = 3
    /\ Len(calls[1]) = 5
    /\ IsCall(calls[1][3], "tool") /\ IsCall(calls[1][5], "decision")
    /\ request[1].last_observation = Some(ToString(calls[1][3].response.result))

-----------------------------------------------------------------------------
(* Termination.  Every call that is outstanding returns or fails and
   run_agent goes on to its next statement: weak fairness of the steps.  The
   budgets up to MaxLiveSteps are followed with every answer; the service as
   main configures it, the default budget and the one tool registered, is
   followed with the answers that let a cycle continue or end the run. *)

InitLive ==
    /\ \/ tools \in Registries /\ max_steps \in 0..MaxLiveSteps
       \/ tools = <<"github_pr_tool">> /\ max_steps = DefaultMaxSteps
    /\ registered = IF tools = <<>> THEN <<>> ELSE <<tools>>
    /\ pc = [r \in Runs |-> "idle"]
    /\ context = [r \in Runs |-> NewContext({})]
    /\ request = [r \in Runs |-> NoRequest]
    /\ calls = [r \in Runs |-> <<>>]
    /\ recFail = [r \in Runs |-> {}]
    /\ outcome = [r \in Runs |-> NoOutcome]
    /\ gh_tool = NotCalled

DefaultReasoning ==
    {resp \in ReasoningResponses :
        resp.status = "exception" \/ resp.confidence = Some(ConfidenceOne)}

DefaultDecisions ==
    {resp \in DecisionResponses :
        \/ resp.action_type = Some("finish") /\ resp.output = Some(GoodOutput)
        \/ resp.action_type = Some("use_tool") /\ resp.tool_name = Some("github_pr_tool")}

\* a step of run 1 on the service as main configures it
DefaultStep ==
    \/ \E input_data \in Inputs : StartRun(1, input_data, TRUE)
    \/ StartCycle(1, TRUE)
    \/ \E ok \in BOOLEAN : MaxStepsReached(1, ok)
    \/ \E response \in DefaultReasoning : ReasoningReturns(1, response, TRUE)
    \/ \E response \in DefaultDecisions : DecisionReturns(1, response, TRUE, TRUE)
    \/ \E response \in ConcTools : ToolReturns(1, response, TRUE, TRUE)

NextLive ==
    \/ max_steps <= MaxLiveSteps /\ Next
    \/ max_steps = DefaultMaxSteps /\ DefaultStep

SpecLive == InitLive /\ [][NextLive]_vars /\ WF_vars(NextLive)

(* C20: when every oracle call and every tool invocation returns or fails,
   every run that has started ends, after at most max_steps cycles.  A run
   that is at the loop test with the budget used up ends with the ErrorResult
   whose message names the configured maximum (15 when max_steps was left at
   its default).  After a run has ended it makes no further call and its
   RunState and result do not change. *)
C20_Terminates ==
    /\ (pc[1] # "idle") ~> Done(1)
    /\ (pc[1] = "loop" /\ Cycles(1) = max_steps) ~>
           (/\ Done(1) /\ ReturnedError(1) /\ outcome[1].exit = "max_steps"
            /\ Contains(ErrorMessage(1), "(" \o ToString(max_steps) \o ")"))
    /\ [](/\ Cycles(1) <= max_steps
          /\ Done(1) => request[1] = NoRequest
          /\ outcome[1].exit = "max_steps" =>
                 /\ Cycles(1) = max_steps
                 /\ Contains(ErrorMessage(1), "(" \o ToString(max_steps) \o ")"))
    /\ [][Done(1) => RunVars(1)' = RunVars(1)]_vars

C20_Witness ==
    /\ Done(1) /\ max_steps = DefaultMaxSteps
    /\ outcome[1].exit = "max_steps"
    /\ Contains(ErrorMessage(1), "(15)")
    /\ Issued(1, "tool") = 15

-----------------------------------------------------------------------------
(* Cycles without an action *)

\* an answer with a tag other than finish and use_tool, or with the tag
\* use_tool and an empty or absent tool name
IsSilentAction(resp) ==
    /\ resp.status = "ok" /\ resp.action_type # None
    /\ \/ resp.action_type \notin {Some("finish"), Some("use_tool")}
       \/ resp.action_type = Some("use_tool") /\ resp.tool_name \in {None, Some("")}

\* the parts of RunState a cycle without an action leaves alone
Observations(ctx) == <<ctx.last_observation, ctx.intermediate_results, ctx.thoughts, ctx.input>>

\* every Decision answer run r has received is one without an action
AlwaysSilent(r) ==
    \A i \in 1..Len(calls[r]) :
        LET c == calls[r][i] IN
        /\ IsCall(c, "reasoning") => ValidReasoning(c.response)
        /\ IsCall(c, "decision") => IsSilentAction(c.response)

(* C21: a cycle whose Action is neither finish nor a use_tool with a
   non-empty tool name invokes no tool, leaves last_observation,
   intermediate_results and thoughts as they were at the start of the cycle,
   and uses up one step: the run goes back to the loop test, the next call, if
   there is one, is the Reasoning call of the next step, which carries the
   observation of the earlier cycle, and the run ends there only by the step
   budget (or by a recording failure).  A run whose Decision answers are all
   of this kind ends with the step-budget ErrorResult after max_steps cycles
   and no tool invocation. *)
C21_SilentCycle ==
    \A r \in Runs :
        /\ \A i \in 1..Len(calls[r]) :
              LET c == calls[r][i] IN
              (IsCall(c, "decision") /\ IsSilentAction(c.response)) =>
                  /\ Cycles(r) >= c.request.step_number
                  /\ i < Len(calls[r]) =>
                        LET next == calls[r][i + 1].request IN
                        /\ next.call = "reasoning"
                        /\ next.step_number = c.request.step_number + 1
                        /\ next.last_observation = c.request.context.last_observation
                        /\ Observations(next.context) = Observations(c.request.context)
                  /\ i = Len(calls[r]) =>
                        /\ Observations(context[r]) = Observations(c.request.context)
                        /\ pc[r] \in {"loop", "reasoning", "done"}
                        /\ pc[r] = "loop" => Cycles(r) = c.request.step_number
                        /\ pc[r] = "reasoning" =>
                              /\ request[r].step_number = c.request.step_number + 1
                              /\ request[r].last_observation = c.request.context.last_observation
                        /\ pc[r] = "done" =>
                              \/ outcome[r].exit = "max_steps" /\ Cycles(r) = max_steps
                              \/ outcome[r] = Raised(RecordingFailure)
        /\ (Done(r) /\ RecordingWorked(r) /\ AlwaysSilent(r)) =>
              /\ ReturnedError(r) /\ outcome[r].exit = "max_steps"
              /\ Cycles(r) = max_steps
              /\ Issued(r, "decision") = max_steps
              /\ Issued(r, "tool") = 0
              /\ context[r].last_observation = None

C21_Witness ==
    /\ Done(1) /\ max_steps = 3 /\ outcome[1].exit = "max_steps"
    /\ Len(calls[1]) = 7 /\ Issued(1, "tool") = 1
    /\ IsCall(calls[1][3], "tool")
    /\ IsCall(calls[1][5], "decision") /\ IsCall(calls[1][7], "decision")
    /\ IsSilentAction(calls[1][5].response) /\ IsSilentAction(calls[1][7].response)
    /\ calls[1][7].response.tool_name = Some("")
    /\ context[1].last_observation = Some(ToString(calls[1][3].response.result))
    /\ Keys(context[1].intermediate_results) = {StepKey(1)}

-----------------------------------------------------------------------------
(* Tools that report a failure in their result *)

\* a tool answer that is a result with status error and an error field
ReportsError(resp) ==
    /\ resp.status = "return"
    /\ HasKey(resp.result, "error")
    /\ HasKey(resp.result, "status") /\ Get(resp.result, "status") = "error"

(* C22: a tool that reports a failure by returning a result with status
   error and an error field does not end the run.  The result is stored as
   the observation of its step, in last_observation and intermediate_results,
   and the run goes on to the loop test: the next call, if there is one, is
   the Reasoning call of the next step, which carries the result as its
   observation.  A run ends with the tool-error ErrorResult only when its last
   call is a tool invocation that threw.  Stated for the runs in which
   recording the cycle's output succeeds. *)
C22_ReportedErrorContinues ==
    \A r \in Runs :
        "cycle_output" \notin recFail[r] =>
            /\ \A i \in 1..Len(calls[r]) :
                  LET c == calls[r][i] IN
                  (IsCall(c, "tool") /\ ReportsError(c.response)) =>
                      /\ HasKey(context[r].intermediate_results, StepKey(StepOf(r, i)))
                      /\ Get(context[r].intermediate_results, StepKey(StepOf(r, i)))
                            = c.response.result
                      /\ i < Len(calls[r]) =>
                            LET next == calls[r][i + 1].request IN
                            /\ next.call = "reasoning"
                            /\ next.step_number = StepOf(r, i) + 1
                            /\ next.last_observation = Some(ToString(c.response.result))
                      /\ i = Len(calls[r]) =>
                            /\ context[r].last_observation = Some(ToString(c.response.result))
                            /\ pc[r] \in {"loop", "reasoning", "done"}
                            /\ pc[r] = "reasoning" =>
                                  request[r].last_observation
                                      = Some(ToString(c.response.result))
                            /\ pc[r] = "done" =>
                                  \/ outcome[r].exit = "max_steps"
                                  \/ outcome[r] = Raised(RecordingFailure)
            /\ outcome[r].exit = "tool_error" =>
                  /\ calls[r] # <<>>
                  /\ IsCall(calls[r][Len(calls[r])], "tool")
                  /\ calls[r][Len(calls[r])].response.status = "throw"

C22_Witness ==
    /\ pc[1] = "reasoning" /\ Cycles(1) = 2 /\ recFail[1] = {}
    /\ Len(calls[1]) = 3 /\ IsCall(calls[1][3], "tool")
    /\ ReportsError(calls[1][3].response)
    /\ request[1].last_observation = Some(ToString(calls[1][3].response.result))
    /\ Get(context[1].intermediate_results, StepKey(1)) = calls[1][3].response.result

-----------------------------------------------------------------------------
(* GitHubPRTool (github_pr_tool.py).  The GitHub API and the tracing sink are
   the environment: the answer of each request and the outcome of each span
   update are inputs of the action that receives them. *)

\* d.get(k, default)
GetOr(m, k, default) == IF HasKey(m, k) THEN Get(m, k) ELSE default

UpperLetters == <<"A", "B", "C", "D", "E", "F", "G", "H", "I", "J", "K", "L", "M",
                  "N", "O", "P", "Q", "R", "S", "T", "U", "V", "W", "X", "Y", "Z">>

LowerLetters == <<"a", "b", "c", "d", "e", "f", "g", "h", "i", "j", "k", "l", "m",
                  "n", "o", "p", "q", "r", "s", "t", "u", "v", "w", "x", "y", "z">>

LowerChar(c) ==
    IF \E i \in 1..Len(UpperLetters) : UpperLetters[i] = c
    THEN LowerLetters[CHOOSE i \in 1..Len(UpperLetters) : UpperLetters[i] = c]
    ELSE c

\* str.lower
RECURSIVE Lower(_)
Lower(str) ==
    IF Len(str) = 0 THEN ""
    ELSE LowerChar(SubSeq(str, 1, 1)) \o Lower(SubSeq(str, 2, Len(str)))

\* ', '.join(names)
RECURSIVE JoinComma(_)
JoinComma(names) ==
    IF names = <<>> THEN ""
    ELSE IF Len(names) = 1 THEN names[1]
    ELSE names[1] \o ", " \o JoinComma(Tail(names))

\* max_length: int = 50000
MaxDiffLength == 50000

\* _truncate_diff
TruncateDiff(diff) ==
    IF Len(diff) > MaxDiffLength
    THEN SubSeq(diff, 1, MaxDiffLength) \o "\n... (diff truncated for length)"
    ELSE diff

\* __init__: the Authorization header is set when the token is truthy
NewHeaders(github_token) ==
    {<<"Accept", "application/vnd.github.v3+json">>}
    \cup (IF TruthyStr(github_token)
          THEN {<<"Authorization", "token " \o TheValue(github_token)>>}
          ELSE {})

\* a constructed tool, execute not yet called
NewTool(github_token) ==
    [pc |-> "idle", headers |-> NewHeaders(github_token), params |-> {},
     issued |-> <<>>, answers |-> <<>>, recFail |-> {}, result |-> NoOutcome]

Tokens == {None, Some(""), Some("ghp_token")}

required_params == <<"owner", "repo", "pr_number">>

FullParams == {<<"owner", "octo">>, <<"repo", "repo">>, <<"pr_number", 1>>}

\* the parameter mappings a Decision Oracle can give: any of the required keys missing
ParamSets == {{q \in FullParams : q[1] \in ks} : ks \in SUBSET {"owner", "repo", "pr_number"}}


\* the answer of one GitHub request: a body, or the exception session.get raised
Body(body) == [status |-> "ok", body |-> Some(body), code |-> 0, text |-> ""]

\* aiohttp.ClientResponseError from raise_for_status
HttpError(code, text) == [status |-> "http", body |-> None, code |-> code, text |-> text]

OtherError(text) == [status |-> "exception", body |-> None, code |-> 0, text |-> text]

PrInfo(private, body) ==
    {<<"title", "Fix">>, <<"user", {<<"login", "alice">>}>>, <<"additions", 3>>,
     <<"deletions", 1>>, <<"body", body>>, <<"html_url", "https://github.com/octo/repo/pull/1">>}
    \cup {<<"private", b>> : b \in private}

PrInfoResponses ==
    {Body(PrInfo(private, body)) : private \in {{}, {FALSE}, {TRUE}},
                                   body \in {None, Some("Fixes the bug")}}
    \cup {Body({<<"private", FALSE>>}),
          HttpError(404, "404, message='Not Found'"),
          HttpError(403, "403, message='API Rate Limit Exceeded'"),
          HttpError(403, "403, message='Forbidden'"),
          OtherError("Cannot connect to host api.github.com")}

FilesResponses ==
    {Body(<<{<<"filename", "a.py">>}, {<<"filename", "b.py">>}>>),
     HttpError(500, "500, message='Server Error'"),
     OtherError("Cannot connect to host api.github.com")}

DiffResponses ==
    {Body("diff --git a/a.py b/a.py"),
     HttpError(404, "404, message='Not Found'"),
     OtherError("Cannot connect to host api.github.com")}

\* {"error": error_msg, "status": "error"}
ToolErrorResult(error_msg) == {<<"error", error_msg>>, <<"status", "error">>}

MissingParamsMessage(missing_params) ==
    "Missing required parameters: " \o JoinComma(missing_params)
    \o ". Please provide owner, repo, and pr_number."

PrivateMessage == "This is a private repository. A GitHub token is required for access."

\* params.get(k, '') inside an f-string
Fmt(params, k) ==
    IF ~HasKey(params, k) THEN ""
    ELSE IF k = "pr_number" THEN ToString(Get(params, k))
    ELSE Get(params, k)

\* the message of the handler of aiohttp.ClientResponseError
HttpErrorMessage(params, e) ==
    IF e.code = 404
    THEN "PR not found: " \o Fmt(params, "owner") \o "/" \o Fmt(params, "repo")
         \o "#" \o Fmt(params, "pr_number")
    ELSE IF e.code = 403 /\ Contains(Lower(e.text), "rate limit exceeded")
    THEN "GitHub API rate limit exceeded. Consider adding authentication for higher limits."
    ELSE e.text

\* the message of the handler of Exception
OtherErrorMessage(e) == "Error retrieving PR information: " \o e.text

\* the result dict of a successful execute
SuccessResult(pr_info, files, diff) ==
    {<<"pr_title", Get(pr_info, "title")>>,
     <<"pr_author", Get(Get(pr_info, "user"), "login")>>,
     <<"changed_files", [i \in 1..Len(files) |-> Get(files[i], "filename")]>>,
     <<"additions", Get(pr_info, "additions")>>,
     <<"deletions", Get(pr_info, "deletions")>>,
     <<"diff", TruncateDiff(diff)>>,
     <<"pr_description", IF TruthyStr(Get(pr_info, "body"))
                         THEN TheValue(Get(pr_info, "body")) ELSE "">>,
     <<"pr_url", Get(pr_info, "html_url")>>,
     <<"repository_private", GetOr(pr_info, "private", FALSE)>>,
     <<"status", "success">>}

\* the keys of pr_info the result is built from
ResultKeys == {"title", "user", "additions", "deletions", "body", "html_url"}

\* faulty variant: the repository's visibility is not looked at
NeedsTokenUnchecked(pr_info, headers) == FALSE

\* pr_info.get("private", False) and "Authorization" not in self.headers
NeedsToken(pr_info, headers) ==
    GetOr(pr_info, "private", FALSE) /\ ~HasKey(headers, "Authorization")


\* an exception raised by a span update inside the try block
SpanError == OtherError(RecordingFailure)

\* the requests issued so far, with one more
Issue(name, answer) ==
    gh_tool' = [gh_tool EXCEPT !.pc = name,
                               !.issued = Append(@, name),
                               !.answers = @ \o answer]

\* execute returns or raises; the span updates among `failed` have failed
ToolExit(answer, failed, result) ==
    gh_tool' = [gh_tool EXCEPT !.pc = "done",
                               !.answers = @ \o answer,
                               !.recFail = @ \cup failed,
                               !.result = result]

\* lines 108-129: the two except clauses; each records its error result in the
\* span and returns it
Caught(answer, e, failed, handlerOk) ==
    LET error_msg == IF e.status = "http" THEN HttpErrorMessage(gh_tool.params, e)
                     ELSE OtherErrorMessage(e)
        exit == IF e.status = "http" THEN "http_error" ELSE "error" IN
    IF handlerOk
    THEN ToolExit(answer, failed, Returned(ToolErrorResult(error_msg), exit))
    ELSE ToolExit(answer, failed \cup {"handler"}, Raised(RecordingFailure))

\* lines 48-71: execute is called; the input is recorded, the required
\* parameters are checked, the PR information is requested
Execute(params, inOk, outOk, handlerOk) ==
    /\ gh_tool.pc = "idle"
    /\ LET missing_params == SelectSeq(required_params, LAMBDA k : ~HasKey(params, k))
           called == [gh_tool EXCEPT !.params = params] IN
       IF ~inOk
       THEN /\ outOk /\ handlerOk
            /\ gh_tool' = [called EXCEPT !.pc = "done", !.recFail = {"input"},
                                         !.result = Raised(RecordingFailure)]
       ELSE IF missing_params # <<>>
       THEN IF outOk
            THEN /\ handlerOk
                 /\ gh_tool' = [called EXCEPT
                        !.pc = "done",
                        !.result = Returned(ToolErrorResult(MissingParamsMessage(missing_params)),
                                            "missing_params")]
            ELSE gh_tool' = [called EXCEPT
                        !.pc = "done",
                        !.recFail = {"output"} \cup Failed("handler", handlerOk),
                        !.result = IF handlerOk
                                   THEN Returned(ToolErrorResult(OtherErrorMessage(SpanError)),
                                                 "error")
                                   ELSE Raised(RecordingFailure)]
       ELSE /\ outOk /\ handlerOk
            /\ gh_tool' = [called EXCEPT !.pc = "pr_info", !.issued = <<"pr_info">>]
    /\ UNCHANGED <<tools, max_steps, registered, pc, context, request, calls, recFail, outcome>>

\* lines 68-85: the PR information arrives; a private repository needs a token;
\* the files are requested
PrInfoReturns(response, outOk, handlerOk) ==
    /\ gh_tool.pc = "pr_info"
    /\ IF response.status # "ok"
       THEN outOk /\ Caught(<<response>>, response, {}, handlerOk)
       ELSE IF NeedsToken(TheValue(response.body), gh_tool.headers)
       THEN IF outOk
            THEN /\ handlerOk
                 /\ ToolExit(<<response>>, {}, Returned(ToolErrorResult(PrivateMessage), "private"))
            ELSE Caught(<<response>>, SpanError, {"output"}, handlerOk)
       ELSE /\ outOk /\ handlerOk
            /\ Issue("files", <<response>>)
    /\ UNCHANGED <<tools, max_steps, registered, pc, context, request, calls, recFail, outcome>>

\* lines 83-88: the files arrive; the diff is requested
FilesReturn(response, handlerOk) ==
    /\ gh_tool.pc = "files"
    /\ IF response.status # "ok"
       THEN Caught(<<response>>, response, {}, handlerOk)
       ELSE handlerOk /\ Issue("diff", <<response>>)
    /\ UNCHANGED <<tools, max_steps, registered, pc, context, request, calls, recFail, outcome>>

\* lines 86-106: the diff arrives; the result is built, recorded and returned
DiffReturns(response, outOk, handlerOk) ==
    /\ gh_tool.pc = "diff"
    /\ LET pr_info == TheValue(gh_tool.answers[1].body)
           files == TheValue(gh_tool.answers[2].body) IN
       IF response.status # "ok"
       THEN outOk /\ Caught(<<response>>, response, {}, handlerOk)
       ELSE IF ~(ResultKeys \subseteq Keys(pr_info))
       THEN outOk /\ Caught(<<response>>, OtherError("'title'"), {}, handlerOk)
       ELSE IF outOk
       THEN /\ handlerOk
            /\ ToolExit(<<response>>, {},
                        Returned(SuccessResult(pr_info, files, TheValue(response.body)),
                                 "success"))
       ELSE Caught(<<response>>, SpanError, {"output"}, handlerOk)
    /\ UNCHANGED <<tools, max_steps, registered, pc, context, request, calls, recFail, outcome>>

InitTool ==
    /\ tools = <<"github_pr_tool">>
    /\ registered = IF tools = <<>> THEN <<>> ELSE <<tools>>
    /\ max_steps = DefaultMaxSteps
    /\ pc = [r \in Runs |-> "idle"]
    /\ context = [r \in Runs |-> NewContext({})]
    /\ request = [r \in Runs |-> NoRequest]
    /\ calls = [r \in Runs |-> <<>>]
    /\ recFail = [r \in Runs |-> {}]
    /\ outcome = [r \in Runs |-> NoOutcome]
    /\ gh_tool \in {NewTool(github_token) : github_token \in Tokens}

NextTool ==
    \/ \E params \in ParamSets, ok1, ok2, ok3 \in BOOLEAN : Execute(params, ok1, ok2, ok3)
    \/ \E response \in PrInfoResponses, ok1, ok2 \in BOOLEAN : PrInfoReturns(response, ok1, ok2)
    \/ \E response \in FilesResponses, ok \in BOOLEAN : FilesReturn(response, ok)
    \/ \E response \in DiffResponses, ok1, ok2 \in BOOLEAN : DiffReturns(response, ok1, ok2)

SpecTool == InitTool /\ [][NextTool]_vars


RequestOrder == <<"pr_info", "files", "diff">>

\* execute has returned a result with status error and an error message
ReturnedToolError ==
    /\ gh_tool.result.kind = "returned"
    /\ Keys(gh_tool.result.value) = {"error", "status"}
    /\ Get(gh_tool.result.value, "status") = "error"
    /\ Get(gh_tool.result.value, "error") # ""

\* no span update of this call of execute has failed
SpansWorked == gh_tool.recFail = {}

(* C23: execute issues its requests in the order PR info, files, diff and
   stops at the first failure.  With a required parameter missing it issues no
   request; when the PR info marks the repository private and the tool has no
   Authorization header it issues neither the files nor the diff request; a
   failed request is the last one issued, and execute then returns a result
   with status error and an error message; a result with status success is
   returned only after the three requests have answered without failure.  The
   results are stated for the calls whose span updates succeed. *)
C23_RequestsInOrder ==
    LET issued == gh_tool.issued
        answers == gh_tool.answers IN
    /\ Len(issued) <= 3 /\ issued = SubSeq(RequestOrder, 1, Len(issued))
    /\ gh_tool.pc \in {"pr_info", "files", "diff"} =>
          issued[Len(issued)] = gh_tool.pc /\ Len(answers) = Len(issued) - 1
    /\ gh_tool.pc = "done" => Len(answers) = Len(issued)
    /\ (gh_tool.pc # "idle" /\ ~({"owner", "repo", "pr_number"} \subseteq Keys(gh_tool.params))) =>
          /\ issued = <<>>
          /\ gh_tool.pc = "done"
          /\ SpansWorked => ReturnedToolError
    /\ (/\ Len(answers) >= 1 /\ answers[1].status = "ok"
        /\ GetOr(TheValue(answers[1].body), "private", FALSE)
        /\ ~HasKey(gh_tool.headers, "Authorization")) =>
          /\ issued = <<"pr_info">>
          /\ gh_tool.pc = "done"
          /\ SpansWorked => ReturnedToolError
    /\ \A i \in 1..Len(answers) :
          answers[i].status # "ok" =>
              /\ i = Len(issued)
              /\ gh_tool.pc = "done"
              /\ SpansWorked => ReturnedToolError
    /\ (gh_tool.result.kind = "returned"
        /\ GetOr(gh_tool.result.value, "status", "") = "success") =>
          /\ issued = RequestOrder
          /\ \A i \in 1..3 : answers[i].status = "ok"
          /\ ~HasKey(gh_tool.result.value, "error")

C23_Witness ==
    /\ gh_tool.pc = "done" /\ SpansWorked
    /\ gh_tool.issued = <<"pr_info", "files">>
    /\ gh_tool.answers[2].status = "http"
    /\ HasKey(gh_tool.headers, "Authorization")
    /\ GetOr(TheValue(gh_tool.answers[1].body), "private", FALSE)
    /\ ReturnedToolError
    /\ Get(gh_tool.result.value, "error") = "500, message='Server Error'"

====
